---- MODULE Spec2Model ----
(***************************************************************************)
(* Model of datahub/ingestion/source/snowflake/snowflake_queries.py:       *)
(*   - SnowflakeQueriesExtractor._parse_audit_log_row   (SpecParse)        *)
(*   - SnowflakeQueriesExtractor.get_workunits_internal and               *)
(*     fetch_audit_log                                   (SpecDriver)      *)
(*   - the relational meaning of the SQL text returned by                  *)
(*     _build_enriched_audit_log_query                   (SpecQuery)       *)
(***************************************************************************)
EXTENDS Integers, Sequences, FiniteSets, TLC

\* ------------------------------------------------------------------ bounds
MaxSources == 1       \* directSources entries per modified column
MaxCols == 2          \* columns per modified object
MaxModified == 2      \* entries of OBJECTS_MODIFIED per row
MaxAccessed == 1      \* entries of DIRECT_OBJECTS_ACCESSED per row
MaxRows == 3          \* rows the warehouse cursor returns for one query
MaxRuns == 2          \* extraction runs, one extractor each
MaxTime == 6          \* latest start time of a query-history row, in ticks
MaxArray == 22        \* entries of an access-history array
TicksPerMilli == 2    \* clock ticks per millisecond
BucketTicks == 4      \* clock ticks per time bucket

\* line 399
_MAX_TABLES_PER_QUERY == 20

\* ------------------------------------------------------------ Python values
\* Optional values: None is the empty tuple, a present value v is <<v>>.
None == <<>>
Some(v) == <<v>>
IsNone(x) == x = <<>>
Get(x) == x[1]

SeqsUpTo(S, n) == UNION {[1..k -> S] : k \in 0..n}

\* --------------------------------------------------- external collaborators
\* SnowflakeQuery.ACCESS_HISTORY_TABLE_VIEW_DOMAINS (snowflake_query.py).
ACCESS_HISTORY_TABLE_VIEW_DOMAINS ==
  {"Table", "External table", "View", "Materialized view"}

\* snowflake_identifier: case-folds because convert_urns_to_lowercase
\* defaults to True (line 79-83).
LowerTable ==
  ("DB.T" :> "db.t") @@ ("DB.U" :> "db.u") @@ ("DB.S" :> "db.s") @@
  ("A" :> "a") @@ ("B" :> "b") @@ ("X" :> "x")
snowflake_identifier(name) == LowerTable[name]

\* gen_dataset_urn(get_dataset_identifier_from_qualified_name(objectName))
DatasetUrn(objectName) == <<"urn:li:dataset", snowflake_identifier(objectName)>>

\* CorpUserUrn(user_name)
CorpUserUrn(user_name) == <<"urn:li:corpuser", user_name>>

\* ------------------------------------------------------------ input domains
ModifiedNames == {"DB.T", "DB.U"}
SourceDomains == {"Table", "Stage"}
Sources ==
  {[objectName |-> "DB.S", objectDomain |-> d, columnName |-> "X"] :
     d \in SourceDomains}
Columns ==
  {[columnName |-> "A", directSources |-> ss] : ss \in SeqsUpTo(Sources, MaxSources)}
ModifiedObjects ==
  {[objectName |-> n, objectDomain |-> "Table", columns |-> cs] :
     n \in ModifiedNames, cs \in SeqsUpTo(Columns, MaxCols)}
AccessedObjects ==
  {[objectName |-> "DB.S", objectDomain |-> "Table",
    columns |-> <<[columnName |-> "X"]>>]}
RowDefects == {"none", "malformed_json", "missing_user_name"}

\* structured report messages
ParseWarning == "Error parsing audit log row"
MultipleDownstreamWarning ==
  "Unexpectedly got multiple downstream entities from the Snowflake audit log."

VARIABLES
  \* ---- _parse_audit_log_row, one row at a time
  p_pc,            \* position inside the parser
  row_defect,      \* what turned out to be wrong with the row, if anything
  st,              \* the parser's locals: upstreams, column_usage, downstream,
                   \* column_lineage, and the warnings it reported
  n_accessed,      \* entries of direct_objects_accessed iterated so far
  n_modified,      \* entries of objects_modified iterated so far
  first_modified,  \* history: objectName of the first entry of objects_modified
  last_modified,   \* history: the entry iterated last (optional)
  entry,           \* the returned PreparsedQuery (optional)
  raised           \* whether the parser raised

  ,
  \* ---- get_workunits_internal / fetch_audit_log
  d_pc,                    \* position inside get_workunits_internal
  run,                     \* number of the current run
  config_local_temp_path,  \* whether config.local_temp_path is set
  audit_log_file,          \* local_temp_path / "audit_log.sqlite": None when the
                           \* file does not exist, else the stored list
  use_cached_audit_log,    \* line 182
  resp,                    \* rows left in the warehouse result cursor
  rows_returned,           \* history: all rows the cursor of this run holds
  row_index,               \* rows taken from the cursor in this run
  queries,                 \* the FileBackedList of this run
  next_query,              \* position of the loop of line 199
  structured_report,       \* warnings on the structured report, in order
  added,                   \* history: arguments of aggregator.add, this run
  prev_added,              \* history: the same of the previous run when this
                           \* run uses the previous run's directory
  parsed,                  \* history: entries the parser returned, this run
  query_calls,             \* history: connection.query calls, this run
  gen_calls                \* history: aggregator.gen_metadata calls, this run
  ,
  \* ---- _build_enriched_audit_log_query and the tables it is run against
  q_pc,                     \* the next common table expression to evaluate
  start_time, end_time,     \* config.window, in ticks
  deny_usernames,           \* config.deny_usernames: None or a list of names
  query_history,            \* snowflake.account_usage.query_history
  access_history,           \* snowflake.account_usage.access_history
  where_binds_alias,        \* whether the WHERE of line 475 reads the select
                            \* list's arrays (TRUE) or the source columns
  start_time_millis, end_time_millis,   \* lines 408-409
  users_filter,             \* lines 411-414: None for "", else the quoted names
  fingerprinted_queries, deduplicated_queries, raw_access_history,
  filtered_access_history, query_access_history

pvars == <<p_pc, row_defect, st, n_accessed, n_modified, first_modified,
           last_modified, entry, raised>>
dvars == <<d_pc, run, config_local_temp_path, audit_log_file,
           use_cached_audit_log, resp, rows_returned, row_index, queries,
           next_query, structured_report, added, prev_added, parsed,
           query_calls, gen_calls>>
qvars == <<q_pc, start_time, end_time, deny_usernames, query_history,
           access_history, where_binds_alias, start_time_millis,
           end_time_millis, users_filter, fingerprinted_queries,
           deduplicated_queries, raw_access_history, filtered_access_history,
           query_access_history>>
vars == <<pvars, dvars, qvars>>

\* ------------------------------------------------- _parse_audit_log_row
\* lines 279-280, 294-295: the locals before the loops
ParserLocals ==
  [upstreams |-> <<>>, column_usage |-> <<>>, downstream |-> None,
   column_lineage |-> None, warnings |-> <<>>]

\* lines 287-289
RECURSIVE ColumnSet(_)
ColumnSet(cols) ==
  IF cols = <<>> THEN {}
  ELSE {snowflake_identifier(Head(cols).columnName)} \cup ColumnSet(Tail(cols))

\* lines 282-292: the body of the loop over direct_objects_accessed
AccessedStep(s, obj) ==
  LET dataset == DatasetUrn(obj.objectName)
      columns == ColumnSet(obj.columns)
  IN [s EXCEPT !.upstreams = Append(@, dataset),
               !.column_usage =
                  [d \in (DOMAIN @) \cup {dataset} |->
                     IF d = dataset THEN columns ELSE @[d]]]

\* lines 318-327
ColumnRef(upstream) ==
  [table |-> DatasetUrn(upstream.objectName),
   column |-> snowflake_identifier(upstream.columnName)]

\* mutant: the objectDomain test of the comprehension is lost
IsTableViewSourceAny(upstream) == TRUE

IsTableViewSource(upstream) ==
  upstream.objectDomain \in ACCESS_HISTORY_TABLE_VIEW_DOMAINS

\* lines 317-331: the comprehension over modified_column["directSources"]
RECURSIVE ColumnUpstreams(_)
ColumnUpstreams(directSources) ==
  IF directSources = <<>> THEN <<>>
  ELSE IF IsTableViewSource(Head(directSources))
       THEN <<ColumnRef(Head(directSources))>> \o ColumnUpstreams(Tail(directSources))
       ELSE ColumnUpstreams(Tail(directSources))

\* mutant: a column without table/view sources gets no edge
RECURSIVE ColumnLineageSkipsEmpty(_, _)
ColumnLineageSkipsEmpty(downstream, cols) ==
  IF cols = <<>> THEN <<>>
  ELSE (IF ColumnUpstreams(Head(cols).directSources) = <<>> THEN <<>>
        ELSE <<[downstream |-> [dataset |-> downstream,
                                column |-> snowflake_identifier(Head(cols).columnName)],
                upstreams |-> ColumnUpstreams(Head(cols).directSources)]>>)
       \o ColumnLineageSkipsEmpty(downstream, Tail(cols))

\* lines 307-333: one ColumnLineageInfo per modified column
RECURSIVE ColumnLineage(_, _)
ColumnLineage(downstream, cols) ==
  IF cols = <<>> THEN <<>>
  ELSE <<[downstream |-> [dataset |-> downstream,
                          column |-> snowflake_identifier(Head(cols).columnName)],
          upstreams |-> ColumnUpstreams(Head(cols).directSources)]>>
       \o ColumnLineage(downstream, Tail(cols))

\* lines 296-333: the body of the loop over objects_modified
ModifiedStep(s, obj) ==
  LET warned == IF ~IsNone(s.downstream)
                THEN Append(s.warnings, MultipleDownstreamWarning)
                ELSE s.warnings
      downstream == DatasetUrn(obj.objectName)
  IN [s EXCEPT !.warnings = warned,
               !.downstream = Some(downstream),
               !.column_lineage = Some(ColumnLineage(downstream, obj.columns))]

\* lines 350-365: the PreparsedQuery (fields the loops and the user produce)
PreparsedQuery(s, user_name) ==
  [upstreams |-> s.upstreams,
   downstream |-> s.downstream,
   column_lineage |-> s.column_lineage,
   column_usage |-> s.column_usage,
   confidence_score |-> 1,
   user |-> CorpUserUrn(user_name)]

\* ---- the parser, stepped one loop iteration at a time
ParseIdle ==
  /\ p_pc = "idle" /\ row_defect = "none" /\ st = ParserLocals
  /\ n_accessed = 0 /\ n_modified = 0
  /\ first_modified = None /\ last_modified = None
  /\ entry = None /\ raised = FALSE

InitParse ==
  /\ p_pc = "decode"
  /\ row_defect = "none"
  /\ st = ParserLocals
  /\ n_accessed = 0 /\ n_modified = 0
  /\ first_modified = None /\ last_modified = None
  /\ entry = None /\ raised = FALSE

\* lines 269-277: json.loads of the two array fields
DecodeRow ==
  /\ p_pc = "decode"
  /\ p_pc' = "accessed"
  /\ UNCHANGED <<row_defect, st, n_accessed, n_modified, first_modified,
                 last_modified, entry, raised>>

\* line 272: json.loads raises on a malformed array field
DecodeRaise ==
  /\ p_pc = "decode"
  /\ row_defect' = "malformed_json"
  /\ raised' = TRUE
  /\ p_pc' = "raised"
  /\ UNCHANGED <<st, n_accessed, n_modified, first_modified, last_modified, entry>>

\* lines 282-292
AccessedIter ==
  /\ p_pc = "accessed"
  /\ n_accessed < MaxAccessed
  /\ \E obj \in AccessedObjects : st' = AccessedStep(st, obj)
  /\ n_accessed' = n_accessed + 1
  /\ UNCHANGED <<p_pc, row_defect, n_modified, first_modified, last_modified,
                 entry, raised>>

AccessedDone ==
  /\ p_pc = "accessed"
  /\ p_pc' = "modified"
  /\ UNCHANGED <<row_defect, st, n_accessed, n_modified, first_modified,
                 last_modified, entry, raised>>

\* lines 296-333
ModifiedIter ==
  /\ p_pc = "modified"
  /\ n_modified < MaxModified
  /\ \E obj \in ModifiedObjects :
       /\ st' = ModifiedStep(st, obj)
       /\ last_modified' = Some(obj)
       /\ first_modified' = IF n_modified = 0 THEN Some(obj.objectName)
                                               ELSE first_modified
  /\ n_modified' = n_modified + 1
  /\ UNCHANGED <<p_pc, row_defect, n_accessed, entry, raised>>

\* lines 340-365, the row has a user_name
ParseReturn ==
  /\ p_pc = "modified"
  /\ entry' = Some(PreparsedQuery(st, "ALICE"))
  /\ p_pc' = "returned"
  /\ UNCHANGED <<row_defect, st, n_accessed, n_modified, first_modified,
                 last_modified, raised>>

\* line 340: res["user_name"] raises KeyError
ParseRaise ==
  /\ p_pc = "modified"
  /\ row_defect' = "missing_user_name"
  /\ raised' = TRUE
  /\ p_pc' = "raised"
  /\ UNCHANGED <<st, n_accessed, n_modified, first_modified,
                 last_modified, entry>>

\* ---- the parser applied to a whole row (what fetch_audit_log calls)
RECURSIVE AccessedLoop(_, _)
AccessedLoop(s, objs) ==
  IF objs = <<>> THEN s ELSE AccessedLoop(AccessedStep(s, Head(objs)), Tail(objs))

RECURSIVE ModifiedLoop(_, _)
ModifiedLoop(s, objs) ==
  IF objs = <<>> THEN s ELSE ModifiedLoop(ModifiedStep(s, Head(objs)), Tail(objs))

\* lines 263-365: what the call does: whether it raised, the warnings it put on
\* the structured report before returning or raising, and the entry returned
ParseAuditLogRow(row) ==
  IF row.defect = "malformed_json"
  THEN [raised |-> TRUE, warnings |-> <<>>, entry |-> None]
  ELSE LET s == ModifiedLoop(AccessedLoop(ParserLocals, row.direct_objects_accessed),
                             row.objects_modified)
       IN IF row.defect = "missing_user_name"
          THEN [raised |-> TRUE, warnings |-> s.warnings, entry |-> None]
          ELSE [raised |-> FALSE, warnings |-> s.warnings,
                entry |-> Some(PreparsedQuery(s, "ALICE"))]

\* ------------------------------------ get_workunits_internal, fetch_audit_log
BareObject(name) == [objectName |-> name, objectDomain |-> "Table", columns |-> <<>>]
ModifiedPrefix(k) == [i \in 1..k |-> BareObject(IF i = 1 THEN "DB.T" ELSE "DB.U")]

\* rows the cursor may return: 0..MaxModified modified objects, with or without
\* a user_name, and one row whose JSON does not decode
DriverRows ==
  {[direct_objects_accessed |-> <<>>, objects_modified |-> ModifiedPrefix(k),
    defect |-> d] : k \in 0..MaxModified, d \in {"none", "missing_user_name"}}
  \cup {[direct_objects_accessed |-> <<>>, objects_modified |-> <<>>,
          defect |-> "malformed_json"]}

\* structured_reporter.warning / report_warning: one warning with the row as context
Warning(message, i) == [message |-> message, context |-> i]
Warnings(messages, i) == [k \in 1..Len(messages) |-> Warning(messages[k], i)]

\* FileBackedList.append
FileBackedListAppend(list, e) == Append(list, e)

DriverFresh ==
  /\ use_cached_audit_log = FALSE
  /\ resp = <<>> /\ rows_returned = <<>> /\ row_index = 0
  /\ queries = <<>> /\ next_query = 1
  /\ structured_report = <<>>
  /\ added = <<>> /\ parsed = <<>>
  /\ query_calls = 0 /\ gen_calls = 0

DriverIdle ==
  /\ d_pc = "off" /\ run = 1 /\ config_local_temp_path = FALSE
  /\ audit_log_file = None /\ prev_added = None
  /\ DriverFresh

\* lines 109-141 and 155-164: a new extractor; an unset local_temp_path is a
\* fresh mkdtemp directory, a set one is the directory the configuration names
InitDriver ==
  /\ d_pc = "start" /\ run = 1
  /\ config_local_temp_path \in BOOLEAN
  /\ audit_log_file = None /\ prev_added = None
  /\ DriverFresh

\* mutant: the existing file is not used, the audit log is fetched again
GetWorkunitsStartRefetch ==
  /\ d_pc = "start"
  /\ use_cached_audit_log' = FALSE
  /\ audit_log_file' = Some(<<>>)
  /\ queries' = <<>>
  /\ d_pc' = "query"
  /\ UNCHANGED <<rows_returned, run, config_local_temp_path, resp, row_index,
                 next_query, structured_report, added, prev_added, parsed,
                 query_calls, gen_calls>>

\* lines 178-193
GetWorkunitsStart ==
  /\ d_pc = "start"
  /\ use_cached_audit_log' = ~IsNone(audit_log_file)
  /\ IF ~IsNone(audit_log_file)
     THEN /\ queries' = Get(audit_log_file)
          /\ d_pc' = "add"
          /\ UNCHANGED audit_log_file
     ELSE /\ audit_log_file' = Some(<<>>)
          /\ queries' = <<>>
          /\ d_pc' = "query"
  /\ UNCHANGED <<rows_returned, run, config_local_temp_path, resp, row_index, next_query,
                 structured_report, added, prev_added, parsed, query_calls,
                 gen_calls>>

\* lines 234-241: connection.query returns the cursor
ConnectionQuery ==
  /\ d_pc = "query"
  /\ resp' \in SeqsUpTo(DriverRows, MaxRows)
  /\ rows_returned' = resp'
  /\ query_calls' = query_calls + 1
  /\ d_pc' = "fetch"
  /\ UNCHANGED <<run, config_local_temp_path, audit_log_file,
                 use_cached_audit_log, row_index, queries, next_query,
                 structured_report, added, prev_added, parsed, gen_calls>>

\* lines 243-249, 256-257 and 196-197: the row parses, the entry is yielded and
\* appended to the list
FetchRowParsed ==
  /\ d_pc = "fetch" /\ resp # <<>>
  /\ LET r == ParseAuditLogRow(Head(resp))
         i == row_index + 1
     IN /\ ~r.raised
        /\ structured_report' = structured_report \o Warnings(r.warnings, i)
        /\ queries' = FileBackedListAppend(queries, Get(r.entry))
        /\ audit_log_file' = Some(FileBackedListAppend(queries, Get(r.entry)))
        /\ parsed' = Append(parsed, Get(r.entry))
        /\ row_index' = i
  /\ resp' = Tail(resp)
  /\ UNCHANGED <<rows_returned, d_pc, run, config_local_temp_path, use_cached_audit_log,
                 next_query, added, prev_added, query_calls, gen_calls>>

\* mutant: the exception is not caught and ends the run
FetchRowFailedAborts ==
  /\ d_pc = "fetch" /\ resp # <<>>
  /\ ParseAuditLogRow(Head(resp)).raised
  /\ d_pc' = "aborted"
  /\ UNCHANGED <<rows_returned, run, config_local_temp_path, audit_log_file,
                 use_cached_audit_log, resp, row_index, queries, next_query,
                 structured_report, added, prev_added, parsed, query_calls,
                 gen_calls>>

\* lines 243-255: the parser raised, the row is reported and skipped
FetchRowFailed ==
  /\ d_pc = "fetch" /\ resp # <<>>
  /\ LET r == ParseAuditLogRow(Head(resp))
         i == row_index + 1
     IN /\ r.raised
        /\ structured_report' =
             Append(structured_report \o Warnings(r.warnings, i),
                    Warning(ParseWarning, i))
        /\ row_index' = i
  /\ resp' = Tail(resp)
  /\ UNCHANGED <<rows_returned, d_pc, run, config_local_temp_path, audit_log_file,
                 use_cached_audit_log, queries, next_query, added, prev_added,
                 parsed, query_calls, gen_calls>>

\* line 243: the cursor is exhausted, the loop of line 196 ends
FetchExhausted ==
  /\ d_pc = "fetch" /\ resp = <<>>
  /\ d_pc' = "add"
  /\ UNCHANGED <<rows_returned, run, config_local_temp_path, audit_log_file,
                 use_cached_audit_log, resp, row_index, queries, next_query,
                 structured_report, added, prev_added, parsed, query_calls,
                 gen_calls>>

\* mutant: the list is consumed from its end
AggregatorAddReversed ==
  /\ d_pc = "add" /\ next_query <= Len(queries)
  /\ added' = Append(added, queries[Len(queries) + 1 - next_query])
  /\ next_query' = next_query + 1
  /\ UNCHANGED <<rows_returned, d_pc, run, config_local_temp_path,
                 audit_log_file, use_cached_audit_log, resp, row_index, queries,
                 structured_report, prev_added, parsed, query_calls, gen_calls>>

\* lines 199-200
AggregatorAdd ==
  /\ d_pc = "add" /\ next_query <= Len(queries)
  /\ added' = Append(added, queries[next_query])
  /\ next_query' = next_query + 1
  /\ UNCHANGED <<rows_returned, d_pc, run, config_local_temp_path, audit_log_file,
                 use_cached_audit_log, resp, row_index, queries,
                 structured_report, prev_added, parsed, query_calls, gen_calls>>

\* mutant: the output is requested while entries are still to be added
GenMetadataEarly ==
  /\ d_pc = "add"
  /\ gen_calls' = gen_calls + 1
  /\ d_pc' = "done"
  /\ UNCHANGED <<rows_returned, run, config_local_temp_path, audit_log_file,
                 use_cached_audit_log, resp, row_index, queries, next_query,
                 structured_report, added, prev_added, parsed, query_calls>>

\* line 202
GenMetadata ==
  /\ d_pc = "add" /\ next_query > Len(queries)
  /\ gen_calls' = gen_calls + 1
  /\ d_pc' = "done"
  /\ UNCHANGED <<rows_returned, run, config_local_temp_path, audit_log_file,
                 use_cached_audit_log, resp, row_index, queries, next_query,
                 structured_report, added, prev_added, parsed, query_calls>>

\* the next run: a new extractor (lines 109-141), and with no configured
\* local_temp_path a new temporary directory (lines 161-164)
NextRun ==
  /\ d_pc = "done" /\ run < MaxRuns
  /\ run' = run + 1
  /\ d_pc' = "start"
  /\ IF config_local_temp_path
     THEN prev_added' = Some(added) /\ UNCHANGED audit_log_file
     ELSE prev_added' = None /\ audit_log_file' = None
  /\ use_cached_audit_log' = FALSE
  /\ resp' = <<>> /\ rows_returned' = <<>> /\ row_index' = 0
  /\ queries' = <<>> /\ next_query' = 1
  /\ structured_report' = <<>>
  /\ added' = <<>> /\ parsed' = <<>>
  /\ query_calls' = 0 /\ gen_calls' = 0
  /\ UNCHANGED config_local_temp_path

\* ------------------------------------------ _build_enriched_audit_log_query
\* user names are strings of characters; str.upper() maps each character
UpperChar ==
  ("s" :> "S") @@ ("S" :> "S") @@ ("v" :> "V") @@ ("V" :> "V") @@
  ("c" :> "C") @@ ("C" :> "C") @@ ("b" :> "B") @@ ("B" :> "B")
Upper(name) == [i \in 1..Len(name) |-> UpperChar[name[i]]]

UserNames == {<<"S", "V", "C">>, <<"s", "v", "c">>, <<"S", "v", "c">>, <<"B">>}
DenyLists ==
  {None, Some(<<>>), Some(<<<<"s", "v", "c">>>>), Some(<<<<"S", "V", "C">>>>),
   Some(<<<<"b">>, <<"S", "v", "c">>>>)}
QueryIds == {"q1", "q2"}
Fingerprints == {"f1", "f2"}
ArrayPatterns == {"tables", "stages", "stage_first", "mixed"}

\* an access-history array of n entries: all tables, all stages, a stage
\* followed by tables, or stages at the odd places and views at the even ones
ArrayOf(pattern, n) ==
  [i \in 1..n |->
     [objectName |-> i,
      objectDomain |-> CASE pattern = "tables" -> "Table"
                         [] pattern = "stages" -> "Stage"
                         [] pattern = "stage_first" ->
                              IF i = 1 THEN "Stage" ELSE "Table"
                         [] OTHER -> IF i % 2 = 1 THEN "Stage" ELSE "View"]]
Arrays == {ArrayOf(p, n) : p \in ArrayPatterns, n \in 0..MaxArray}

\* the access-history row of a query-history row: same query_id, start time
\* and user
AccessRow(q, doa, om) ==
  [query_id |-> q.query_id, query_start_time |-> q.start_time,
   user_name |-> q.user_name, direct_objects_accessed |-> doa,
   objects_modified |-> om]

QueryRows(id, times, fingerprints, statuses, users) ==
  {[query_id |-> id, start_time |-> t, query_fingerprint |-> f,
    execution_status |-> x, user_name |-> u] :
     t \in times, f \in fingerprints, x \in statuses, u \in users}

\* lines 408-409: int(t.timestamp() * 1000), t not before the epoch
Millis(t) == t \div TicksPerMilli
\* to_timestamp_ltz(millis, 3)
ToTimestamp(millis) == millis * TicksPerMilli

\* lines 411-414
UsersFilter(deny) ==
  IF IsNone(deny) \/ Get(deny) = <<>> THEN None
  ELSE Some({Upper(Get(deny)[i]) : i \in 1..Len(Get(deny))})

\* lines 431, 458: {users_filter or 'TRUE'}
PassesUsersFilter(user_name) ==
  IF IsNone(users_filter) THEN TRUE ELSE user_name \notin Get(users_filter)

\* lines 428-429, 456-457
InWindow(t) ==
  /\ t >= ToTimestamp(start_time_millis)
  /\ t < ToTimestamp(end_time_millis)

\* lines 436-439: DATE_TRUNC(bucket, CONVERT_TIMEZONE('UTC', start_time))
DateTrunc(t) == (t \div BucketTicks) * BucketTicks

\* lines 469, 473: FILTER(array, o -> o:objectDomain IN table/view domains)
RECURSIVE Filter(_)
Filter(array) ==
  IF array = <<>> THEN <<>>
  ELSE IF Head(array).objectDomain \in ACCESS_HISTORY_TABLE_VIEW_DOMAINS
       THEN <<Head(array)>> \o Filter(Tail(array))
       ELSE Filter(Tail(array))

\* mutant: the slice starts one entry late
ArraySliceOffByOne(array, from, to) ==
  [i \in 1..((IF to < Len(array) THEN to ELSE Len(array)) - from - 1) |->
     array[from + 1 + i]]

\* lines 468-471: ARRAY_SLICE(array, from, to), from inclusive, to exclusive
ArraySlice(array, from, to) ==
  [i \in 1..((IF to < Len(array) THEN to ELSE Len(array)) - from) |->
     array[from + i]]

QueryIdle ==
  /\ q_pc = "off" /\ start_time = 0 /\ end_time = 0 /\ deny_usernames = None
  /\ query_history = {} /\ access_history = {} /\ where_binds_alias = FALSE
  /\ start_time_millis = 0 /\ end_time_millis = 0 /\ users_filter = None
  /\ fingerprinted_queries = {} /\ deduplicated_queries = {}
  /\ raw_access_history = {} /\ filtered_access_history = {}
  /\ query_access_history = {}

QueryNotRun ==
  /\ q_pc = "build"
  /\ start_time_millis = 0 /\ end_time_millis = 0 /\ users_filter = None
  /\ fingerprinted_queries = {} /\ deduplicated_queries = {}
  /\ raw_access_history = {} /\ filtered_access_history = {}
  /\ query_access_history = {}

SmallArrays == {<<>>, ArrayOf("tables", 1), ArrayOf("stages", 1)}

\* inputs that vary start times, fingerprints, statuses and the access history
InitDedup ==
  /\ start_time = 2 /\ end_time \in {MaxTime, MaxTime + 1}
  /\ deny_usernames \in {None, Some(<<<<"b">>>>)}
  /\ where_binds_alias \in BOOLEAN
  /\ \E r1 \in QueryRows("q1", 1..MaxTime, Fingerprints, {"SUCCESS", "FAIL"},
                         {<<"S", "V", "C">>}),
        r2 \in QueryRows("q2", 1..MaxTime, Fingerprints, {"SUCCESS"},
                         {<<"S", "V", "C">>, <<"B">>}) :
       /\ query_history = {r1, r2}
       /\ \E a1 \in {{}} \cup {{AccessRow(r1, doa, <<>>)} : doa \in SmallArrays},
             a2 \in {{}} \cup {{AccessRow(r2, doa, <<>>)} : doa \in SmallArrays} :
            access_history = a1 \cup a2

\* inputs that vary the two arrays of one access-history row
InitArrays ==
  /\ start_time = 2 /\ end_time = MaxTime
  /\ deny_usernames = None
  /\ where_binds_alias \in BOOLEAN
  /\ LET r1 == CHOOSE r \in QueryRows("q1", {2}, {"f1"}, {"SUCCESS"}, {<<"B">>}) : TRUE
         r2 == CHOOSE r \in QueryRows("q2", {3}, {"f2"}, {"SUCCESS"}, {<<"B">>}) : TRUE
     IN /\ query_history = {r1, r2}
        /\ \E doa \in Arrays, om \in Arrays :
             access_history = {AccessRow(r1, doa, om),
                               AccessRow(r2, ArrayOf("tables", 1), <<>>)}

\* inputs that vary the user names and the denylist
InitUsers ==
  /\ start_time = 2 /\ end_time = MaxTime
  /\ deny_usernames \in DenyLists
  /\ where_binds_alias \in BOOLEAN
  /\ \E r1 \in QueryRows("q1", {2}, {"f1"}, {"SUCCESS"}, UserNames),
        r2 \in QueryRows("q2", {3}, {"f2"}, {"SUCCESS"}, UserNames) :
       /\ query_history = {r1, r2}
       /\ access_history = {AccessRow(r1, ArrayOf("tables", 1), <<>>),
                            AccessRow(r2, <<>>, ArrayOf("tables", 1))}

InitQuery == QueryNotRun /\ (InitDedup \/ InitArrays \/ InitUsers)

\* lines 408-417: the values interpolated into the text
BuildQuery ==
  /\ q_pc = "build"
  /\ start_time_millis' = Millis(start_time)
  /\ end_time_millis' = Millis(end_time)
  /\ users_filter' = UsersFilter(deny_usernames)
  /\ q_pc' = "fingerprinted_queries"
  /\ UNCHANGED <<start_time, end_time, deny_usernames, query_history,
                 access_history, where_binds_alias, fingerprinted_queries,
                 deduplicated_queries, raw_access_history,
                 filtered_access_history, query_access_history>>

\* lines 421-432
FingerprintedQueries ==
  /\ q_pc = "fingerprinted_queries"
  /\ fingerprinted_queries' =
       {r \in query_history :
          /\ InWindow(r.start_time)
          /\ r.execution_status = "SUCCESS"
          /\ PassesUsersFilter(r.user_name)}
  /\ q_pc' = "deduplicated_queries"
  /\ UNCHANGED <<start_time, end_time, deny_usernames, query_history,
                 access_history, where_binds_alias, start_time_millis,
                 end_time_millis, users_filter, deduplicated_queries,
                 raw_access_history, filtered_access_history,
                 query_access_history>>

\* the rows of fingerprinted_queries in the window partition of row r
PartitionOf(r) ==
  {x \in fingerprinted_queries :
     /\ DateTrunc(x.start_time) = DateTrunc(r.start_time)
     /\ x.query_fingerprint = r.query_fingerprint}

\* lines 434-440: the row with the columns the CTE adds
Deduplicated(r) ==
  [query_id |-> r.query_id, start_time |-> r.start_time,
   query_fingerprint |-> r.query_fingerprint, user_name |-> r.user_name,
   bucket_start_time |-> DateTrunc(r.start_time),
   query_count |-> Cardinality(PartitionOf(r))]

\* mutant: ROW_NUMBER orders by start_time ascending
DeduplicatedQueriesKeepsOldest ==
  /\ q_pc = "deduplicated_queries"
  /\ \E kept \in SUBSET fingerprinted_queries :
       /\ \A r \in fingerprinted_queries :
            Cardinality(kept \cap PartitionOf(r)) = 1
       /\ \A r \in kept : \A x \in PartitionOf(r) : r.start_time <= x.start_time
       /\ deduplicated_queries' = {Deduplicated(r) : r \in kept}
  /\ q_pc' = "raw_access_history"
  /\ UNCHANGED <<start_time, end_time, deny_usernames, query_history,
                 access_history, where_binds_alias, start_time_millis,
                 end_time_millis, users_filter, fingerprinted_queries,
                 raw_access_history, filtered_access_history,
                 query_access_history>>

\* lines 433-445: QUALIFY ROW_NUMBER() OVER (PARTITION BY bucket_start_time,
\* query_fingerprint ORDER BY start_time DESC) = 1 keeps one row of every
\* partition, one with the latest start_time; among rows with equal start_time
\* the warehouse picks any
DeduplicatedQueries ==
  /\ q_pc = "deduplicated_queries"
  /\ \E kept \in SUBSET fingerprinted_queries :
       /\ \A r \in fingerprinted_queries :
            Cardinality(kept \cap PartitionOf(r)) = 1
       /\ \A r \in kept : \A x \in PartitionOf(r) : r.start_time >= x.start_time
       /\ deduplicated_queries' = {Deduplicated(r) : r \in kept}
  /\ q_pc' = "raw_access_history"
  /\ UNCHANGED <<start_time, end_time, deny_usernames, query_history,
                 access_history, where_binds_alias, start_time_millis,
                 end_time_millis, users_filter, fingerprinted_queries,
                 raw_access_history, filtered_access_history,
                 query_access_history>>

\* lines 446-462
RawAccessHistory ==
  /\ q_pc = "raw_access_history"
  /\ raw_access_history' =
       {a \in access_history :
          /\ InWindow(a.query_start_time)
          /\ PassesUsersFilter(a.user_name)
          /\ a.query_id \in {q.query_id : q \in deduplicated_queries}}
  /\ q_pc' = "filtered_access_history"
  /\ UNCHANGED <<start_time, end_time, deny_usernames, query_history,
                 access_history, where_binds_alias, start_time_millis,
                 end_time_millis, users_filter, fingerprinted_queries,
                 deduplicated_queries, filtered_access_history,
                 query_access_history>>

\* lines 465-473: the select list
FilteredRow(a) ==
  [query_id |-> a.query_id, query_start_time |-> a.query_start_time,
   direct_objects_accessed |->
     ArraySlice(Filter(a.direct_objects_accessed), 0, _MAX_TABLES_PER_QUERY),
   objects_modified |-> Filter(a.objects_modified)]

\* line 475: array_size(direct_objects_accessed) > 0 or
\* array_size(objects_modified) > 0. Both names are columns of
\* raw_access_history and aliases of the select list; which of the two the
\* WHERE clause reads is the warehouse's name resolution.
WhereNonEmpty(a) ==
  IF where_binds_alias
  THEN \/ Len(FilteredRow(a).direct_objects_accessed) > 0
       \/ Len(FilteredRow(a).objects_modified) > 0
  ELSE \/ Len(a.direct_objects_accessed) > 0
       \/ Len(a.objects_modified) > 0

\* lines 463-476
FilteredAccessHistory ==
  /\ q_pc = "filtered_access_history"
  /\ filtered_access_history' =
       {FilteredRow(a) : a \in {x \in raw_access_history : WhereNonEmpty(x)}}
  /\ q_pc' = "query_access_history"
  /\ UNCHANGED <<start_time, end_time, deny_usernames, query_history,
                 access_history, where_binds_alias, start_time_millis,
                 end_time_millis, users_filter, fingerprinted_queries,
                 deduplicated_queries, raw_access_history,
                 query_access_history>>

\* lines 477-500: JOIN ... USING (query_id)
QueryAccessHistory ==
  /\ q_pc = "query_access_history"
  /\ query_access_history' =
       {[bucket_start_time |-> q.bucket_start_time,
         query_id |-> q.query_id,
         query_fingerprint |-> q.query_fingerprint,
         query_count |-> q.query_count,
         QUERY_START_TIME |-> q.start_time,
         USER_NAME |-> q.user_name,
         direct_objects_accessed |-> a.direct_objects_accessed,
         objects_modified |-> a.objects_modified] :
          <<q, a>> \in {x \in deduplicated_queries \X filtered_access_history :
                         x[1].query_id = x[2].query_id}}
  /\ q_pc' = "done"
  /\ UNCHANGED <<start_time, end_time, deny_usernames, query_history,
                 access_history, where_binds_alias, start_time_millis,
                 end_time_millis, users_filter, fingerprinted_queries,
                 deduplicated_queries, raw_access_history,
                 filtered_access_history>>

NextParse ==
  \/ DecodeRow /\ UNCHANGED <<dvars, qvars>>
  \/ DecodeRaise /\ UNCHANGED <<dvars, qvars>>
  \/ AccessedIter /\ UNCHANGED <<dvars, qvars>>
  \/ AccessedDone /\ UNCHANGED <<dvars, qvars>>
  \/ ModifiedIter /\ UNCHANGED <<dvars, qvars>>
  \/ ParseReturn /\ UNCHANGED <<dvars, qvars>>
  \/ ParseRaise /\ UNCHANGED <<dvars, qvars>>

NextDriver ==
  \/ GetWorkunitsStart /\ UNCHANGED <<pvars, qvars>>
  \/ ConnectionQuery /\ UNCHANGED <<pvars, qvars>>
  \/ FetchRowParsed /\ UNCHANGED <<pvars, qvars>>
  \/ FetchRowFailed /\ UNCHANGED <<pvars, qvars>>
  \/ FetchExhausted /\ UNCHANGED <<pvars, qvars>>
  \/ AggregatorAdd /\ UNCHANGED <<pvars, qvars>>
  \/ GenMetadata /\ UNCHANGED <<pvars, qvars>>
  \/ NextRun /\ UNCHANGED <<pvars, qvars>>

NextQuery ==
  \/ BuildQuery /\ UNCHANGED <<pvars, dvars>>
  \/ FingerprintedQueries /\ UNCHANGED <<pvars, dvars>>
  \/ DeduplicatedQueries /\ UNCHANGED <<pvars, dvars>>
  \/ RawAccessHistory /\ UNCHANGED <<pvars, dvars>>
  \/ FilteredAccessHistory /\ UNCHANGED <<pvars, dvars>>
  \/ QueryAccessHistory /\ UNCHANGED <<pvars, dvars>>

InitSpecParse == InitParse /\ DriverIdle /\ QueryIdle
InitSpecDriver == InitDriver /\ ParseIdle /\ QueryIdle
InitSpecQuery == InitQuery /\ ParseIdle /\ DriverIdle

SpecParse == InitSpecParse /\ [][NextParse]_vars
SpecDriver == InitSpecDriver /\ [][NextDriver]_vars
SpecQuery == InitSpecQuery /\ [][NextQuery]_vars

\* ======================================================== properties
\* ---- helpers of the properties
Raises(row) == ParseAuditLogRow(row).raised

\* the entries of the rows that parse, in row order
RECURSIVE EntriesOf(_)
EntriesOf(rows) ==
  IF rows = <<>> THEN <<>>
  ELSE (IF Raises(Head(rows)) THEN <<>> ELSE <<Get(ParseAuditLogRow(Head(rows)).entry)>>)
       \o EntriesOf(Tail(rows))

RowsTaken == SubSeq(rows_returned, 1, row_index)

ParseWarningsOfRow(i) ==
  {k \in 1..Len(structured_report) :
     structured_report[k] = Warning(ParseWarning, i)}
ParseWarningsTotal ==
  Cardinality({k \in 1..Len(structured_report) :
                 structured_report[k].message = ParseWarning})

\* C1: in fetch_audit_log a row on which the parser raises never ends the run:
\* the row is skipped and reported as exactly one "Error parsing audit log row"
\* warning, every row that parses yields exactly one entry, and the entries
\* yielded plus the parse warnings are the rows taken from the cursor (all of
\* them once the cursor is exhausted).
C1_BadRowsSkippedAndReported ==
  /\ d_pc # "aborted"
  /\ rows_returned = RowsTaken \o resp
  /\ \A i \in 1..row_index :
       Cardinality(ParseWarningsOfRow(i)) = IF Raises(rows_returned[i]) THEN 1 ELSE 0
  /\ parsed = EntriesOf(RowsTaken)
  /\ Len(parsed) + ParseWarningsTotal = row_index
  /\ (d_pc \in {"add", "done"} /\ ~use_cached_audit_log)
       => row_index = Len(rows_returned)

\* C1 witness: a finished run in which a row raised and a later row was yielded
C1_Witness ==
  /\ d_pc = "done" /\ Len(rows_returned) = 3
  /\ Raises(rows_returned[1])
  /\ Raises(rows_returned[2]) /\ rows_returned[2].objects_modified # <<>>
  /\ ~Raises(rows_returned[3])
  /\ Len(parsed) = 1 /\ ParseWarningsTotal = 2

\* C3: a run that finds the file a finished earlier run left in the same
\* directory adds to the aggregator the very entries that run added, in the
\* same order, and never calls connection.query.
C3_CacheReplay ==
  (run > 1 /\ config_local_temp_path) =>
     /\ query_calls = 0
     /\ d_pc = "done" => (~IsNone(prev_added) /\ added = Get(prev_added))

\* C3 witness: a finished second run that replayed at least two entries
C3_Witness ==
  /\ run = 2 /\ config_local_temp_path /\ d_pc = "done"
  /\ use_cached_audit_log /\ Len(added) >= 2 /\ added[1] # added[2]

\* C4: the arguments of aggregator.add are, in order and once each, the entries
\* of the rows that parsed in cursor order (fresh fetch) or the stored list in
\* append order (replay).
C4_AddedInArrivalOrder ==
  /\ added = SubSeq(queries, 1, Len(added))
  /\ d_pc = "done" => added = queries
  /\ (~use_cached_audit_log /\ d_pc \in {"add", "done"})
       => queries = EntriesOf(rows_returned)
  /\ (use_cached_audit_log /\ d_pc \in {"add", "done"})
       => queries = Get(audit_log_file)

\* C4 witness: a finished fresh run that added two different entries around a
\* row that failed
C4_Witness ==
  /\ d_pc = "done" /\ ~use_cached_audit_log /\ Len(rows_returned) = 3
  /\ Raises(rows_returned[2])
  /\ Len(added) = 2 /\ added[1] # added[2]

\* C10: gen_metadata is called once, after every entry of the run was added;
\* on a fresh fetch nothing is added before the cursor is exhausted and every
\* parsed entry is in the stored list.
C10_GenAfterAllAdded ==
  /\ gen_calls = (IF d_pc = "done" THEN 1 ELSE 0)
  /\ gen_calls = 1 => (added = queries /\ next_query = Len(queries) + 1)
  /\ (~use_cached_audit_log /\ added # <<>>)
       => /\ resp = <<>>
          /\ row_index = Len(rows_returned)
          /\ audit_log_file = Some(parsed)

\* C10 witness: gen_metadata called after two entries of a fresh fetch were added
C10_Witness ==
  /\ gen_calls = 1 /\ ~use_cached_audit_log /\ Len(added) = 2
  /\ Len(rows_returned) = 2

TableViewDomain(u) == u.objectDomain \in ACCESS_HISTORY_TABLE_VIEW_DOMAINS
KeptSources(directSources) == SelectSeq(directSources, TableViewDomain)

\* C2: a row with more than one entry in objects_modified gets exactly one
\* structural warning and its record's downstream is the resolved identifier
\* of the first entry.
C2_FirstModifiedWins ==
  (p_pc = "returned" /\ n_modified > 1) =>
     /\ ~IsNone(entry)
     /\ Len(st.warnings) = 1
     /\ Get(entry).downstream = Some(DatasetUrn(Get(first_modified)))

\* C8: in a returned record every column_lineage upstream list is exactly the
\* table/view-domain directSources of its column, in order, none missing and
\* none from another domain; filtering the kept sources again changes nothing.
C8_UpstreamsAreTableViewSources ==
  (p_pc = "returned" /\ n_modified >= 1) =>
     LET cl == Get(Get(entry).column_lineage)
         cols == Get(last_modified).columns
     IN /\ Len(cl) = Len(cols)
        /\ \A j \in 1..Len(cols) :
             LET kept == KeptSources(cols[j].directSources)
             IN /\ cl[j].upstreams = [i \in 1..Len(kept) |-> ColumnRef(kept[i])]
                /\ KeptSources(kept) = kept

\* C8 witness: a returned record with a column whose stage source was dropped
\* and a column whose table source was kept
C8_Witness ==
  /\ p_pc = "returned" /\ n_modified >= 1
  /\ LET cols == Get(last_modified).columns
         cl == Get(Get(entry).column_lineage)
     IN /\ \E j \in 1..Len(cols) :
             /\ \E i \in 1..Len(cols[j].directSources) :
                  ~TableViewDomain(cols[j].directSources[i])
             /\ Len(cl[j].upstreams) < Len(cols[j].directSources)
        /\ \E j \in 1..Len(cols) :
             /\ \E i \in 1..Len(cols[j].directSources) :
                  TableViewDomain(cols[j].directSources[i])
             /\ cl[j].upstreams # <<>>

\* C9: a well-formed row with exactly one entry in objects_modified yields one
\* record whose downstream is that entry's resolved identifier and whose
\* column_lineage has one edge per column of the entry, in order, also for a
\* column whose filtered upstream list is empty.
C9_OneModifiedObject ==
  (p_pc \in {"returned", "raised"} /\ n_modified = 1 /\ row_defect = "none") =>
     /\ p_pc = "returned" /\ ~IsNone(entry)
     /\ LET obj == Get(last_modified)
            cl == Get(Get(entry).column_lineage)
        IN /\ Get(entry).downstream = Some(DatasetUrn(obj.objectName))
           /\ Len(cl) = Len(obj.columns)
           /\ \A j \in 1..Len(cl) :
                /\ cl[j].downstream =
                     [dataset |-> DatasetUrn(obj.objectName),
                      column |-> snowflake_identifier(obj.columns[j].columnName)]
                /\ Len(cl[j].upstreams) <= Len(obj.columns[j].directSources)

\* C9 witness: one modified object with two columns, the first of which has
\* only a stage source
C9_Witness ==
  /\ p_pc = "returned" /\ n_modified = 1 /\ n_accessed = 1
  /\ Len(Get(last_modified).columns) = 2
  /\ Get(last_modified).columns[1].directSources # <<>>
  /\ Get(Get(entry).column_lineage)[1].upstreams = <<>>
  /\ Get(Get(entry).column_lineage)[2].upstreams # <<>>

\* ---- helpers of the properties about the query
KeptEntries(array) == SelectSeq(array, TableViewDomain)
FirstEntries(array, n) == SubSeq(array, 1, IF n < Len(array) THEN n ELSE Len(array))
Later(t1, t2) == IF t1 >= t2 THEN t1 ELSE t2
SamePair(r1, r2) ==
  /\ r1 # r2
  /\ r1.query_fingerprint = r2.query_fingerprint
  /\ r1.start_time \div BucketTicks = r2.start_time \div BucketTicks
ResultRowsOfPair(r) ==
  {x \in query_access_history :
     /\ x.bucket_start_time = (r.start_time \div BucketTicks) * BucketTicks
     /\ x.query_fingerprint = r.query_fingerprint}
DeduplicatedRowsOfPair(r) ==
  {x \in deduplicated_queries :
     /\ x.bucket_start_time = (r.start_time \div BucketTicks) * BucketTicks
     /\ x.query_fingerprint = r.query_fingerprint}
InConfiguredWindow(r) == r.start_time >= start_time /\ r.start_time < end_time
\* the window as the query text has it: both ends cut to whole milliseconds
InEncodedWindow(r) ==
  /\ r.start_time >= (start_time \div TicksPerMilli) * TicksPerMilli
  /\ r.start_time < (end_time \div TicksPerMilli) * TicksPerMilli
DeniedIgnoringCase(user_name) ==
  /\ ~IsNone(deny_usernames)
  /\ \E i \in 1..Len(Get(deny_usernames)) :
       Upper(Get(deny_usernames)[i]) = Upper(user_name)
DeniedUppercased(user_name) ==
  /\ ~IsNone(deny_usernames)
  /\ \E i \in 1..Len(Get(deny_usernames)) :
       Upper(Get(deny_usernames)[i]) = user_name
Selected(r) ==
  /\ r.execution_status = "SUCCESS"
  /\ InEncodedWindow(r)
  /\ ~DeniedUppercased(r.user_name)

\* C5 as stated: two successful query-history rows inside [start_time,
\* end_time) with the same fingerprint and time bucket give exactly one result
\* row for that pair, with query_count = 2 and the later start time.
C5_ExactlyOneResultRow ==
  q_pc = "done" =>
    \A r1, r2 \in query_history :
      ( /\ SamePair(r1, r2)
        /\ r1.execution_status = "SUCCESS" /\ r2.execution_status = "SUCCESS"
        /\ InConfiguredWindow(r1) /\ InConfiguredWindow(r2) )
      => \E x \in query_access_history :
           /\ ResultRowsOfPair(r1) = {x}
           /\ x.query_count = 2
           /\ x.QUERY_START_TIME = Later(r1.start_time, r2.start_time)

\* C5 amended: when exactly two successful rows with the same fingerprint and
\* bucket lie in the window the query text encodes and pass the user filter,
\* deduplicated_queries holds exactly one row for the pair, with query_count 2
\* and the later start time; the result holds one row for the pair per row of
\* filtered_access_history of the kept query (none when it has none), each
\* with query_count 2 and the later start time.
C5_DeduplicatedThenJoined ==
  q_pc = "done" =>
    \A r1, r2 \in query_history :
      ( /\ SamePair(r1, r2) /\ Selected(r1) /\ Selected(r2)
        /\ \A r3 \in query_history :
             (Selected(r3) /\ r3 # r1 /\ SamePair(r3, r1)) => r3 = r2 )
      => LET latest == Later(r1.start_time, r2.start_time)
         IN /\ \E k \in deduplicated_queries :
                 /\ DeduplicatedRowsOfPair(r1) = {k}
                 /\ k.query_count = 2
                 /\ k.start_time = latest
                 /\ k.query_id \in {r1.query_id, r2.query_id}
                 /\ Cardinality(ResultRowsOfPair(r1)) =
                      Cardinality({a \in filtered_access_history :
                                     a.query_id = k.query_id})
            /\ \A x \in ResultRowsOfPair(r1) :
                 x.query_count = 2 /\ x.QUERY_START_TIME = latest

\* C5 witness: two such rows with different start times and a result row
C5_Witness ==
  /\ q_pc = "done"
  /\ \E r1, r2 \in query_history :
       /\ SamePair(r1, r2) /\ Selected(r1) /\ Selected(r2)
       /\ r1.start_time < r2.start_time
       /\ \E x \in ResultRowsOfPair(r1) :
            x.query_count = 2 /\ x.QUERY_START_TIME = r2.start_time

C7_DeniedUsersExcluded ==
  q_pc = "done" =>
    /\ \A r \in query_history :
         DeniedIgnoringCase(r.user_name) => r \notin fingerprinted_queries
    /\ \A a \in access_history :
         DeniedIgnoringCase(a.user_name) => a \notin raw_access_history
    /\ (IsNone(deny_usernames) \/ Get(deny_usernames) = <<>>)
         => /\ IsNone(users_filter)
            /\ fingerprinted_queries =
                 {r \in query_history :
                    r.execution_status = "SUCCESS" /\ InEncodedWindow(r)}

====
